---------------------------- MODULE Spec2Model ----------------------------
(***************************************************************************)
(* MigraSafe: the rule catalog, the matcher (analyze_sql), the score and   *)
(* label functions (migrasafe.py) and the command-line gate (cli.py).      *)
(*                                                                         *)
(* A text is a sequence of lexemes.  A lexeme is one whitespace character  *)
(* (" ", "\t", "\n"), one punctuation character (";", "(", ")", ",", ".")  *)
(* or a run of word characters (a keyword, an identifier, a number).  Two  *)
(* adjacent word lexemes form one longer word, as "NULL","x" is NULLx.     *)
(* The word lexemes used below are chosen so that no keyword of a pattern  *)
(* is a proper part of a lexeme or straddles two lexemes; a keyword of a   *)
(* pattern therefore matches exactly at a lexeme that equals it up to      *)
(* case, and every regular expression of RULES is matched lexeme by        *)
(* lexeme with the priorities (greedy, backtracking) of Python's re.       *)
(* Offsets are lexeme offsets: position i is the place before lexeme i.    *)
(***************************************************************************)
EXTENDS Integers, Sequences, FiniteSets, TLC

VARIABLES
    pc,             \* position of the caller
    sql,            \* analyze_sql: the text analysed
    include_django, \* analyze_sql: the framework flag
    findings,       \* AnalysisResult.findings of the last analyze_sql
    spans,          \* for each finding, match.start() and match.end()
    paths,          \* cli.main: the contents of the files named on the command line
    threshold,      \* cli.main: --threshold
    fmt,            \* cli.main: --format
    no_django,      \* cli.main: --no-django
    idx,            \* cli.main: number of paths already analysed
    all_findings,   \* cli.main: all_findings
    total,          \* cli.main: total; risk_label: score
    label,          \* risk_label's result
    passed,         \* the JSON document's "passed"
    exit_code       \* the process's exit status

vars == <<pc, sql, include_django, findings, spans, paths, threshold, fmt,
          no_django, idx, all_findings, total, label, passed, exit_code>>

---------------------------------------------------------------------------
(* Lexemes and character classes. *)

Spaces == {" ", "\t", "\n"}

Puncts == {";", "(", ")", ",", "."}

IsSpace(l) == l \in Spaces

IsWord(l) == l \notin Spaces /\ l \notin Puncts

\* re.IGNORECASE: the case folding of the lexemes that are not upper case.
Upper(l) ==
    CASE l = "create" -> "CREATE"
      [] l = "index" -> "INDEX"
      [] l = "concurrently" -> "CONCURRENTLY"
      [] l = "not" -> "NOT"
      [] l = "null" -> "NULL"
      [] l = "default" -> "DEFAULT"
      [] l = "RunPython" -> "RUNPYTHON"
      [] l = "runpython" -> "RUNPYTHON"
      [] OTHER -> l

\* Whether lexeme l belongs to class c: \s, \S, \w, [^;].
InClass(c, l) ==
    CASE c = "s" -> IsSpace(l)
      [] c = "S" -> ~IsSpace(l)
      [] c = "w" -> IsWord(l)
      [] c = "notsemi" -> l # ";"

\* \b at position i of text t: a word character on exactly one side.
WordBoundary(t, i) ==
    LET before == i > 1 /\ i - 1 <= Len(t) /\ IsWord(t[i - 1])
        after == i >= 1 /\ i <= Len(t) /\ IsWord(t[i])
    IN before # after

---------------------------------------------------------------------------
(* Regular expressions: a pattern is a sequence of items. *)

\* The text as re.IGNORECASE compares it.
Fold(t) == [i \in 1..Len(t) |-> Upper(t[i])]

Lit(k) == [t |-> "lit", k |-> Upper(k)]     \* a keyword or a punctuation character

Plus(c) == [t |-> "rep", c |-> c, min |-> 1] \* c+

Star(c) == [t |-> "rep", c |-> c, min |-> 0] \* c*

Opt(r) == [t |-> "opt", r |-> r]            \* (?:r)?

NotAhead(r) == [t |-> "nla", r |-> r]       \* (?!r)

B == [t |-> "wb"]                           \* \b

\* The number of consecutive lexemes of class c from position i.
RECURSIVE RunLen(_, _, _)
RunLen(c, t, i) ==
    IF i <= Len(t) /\ InClass(c, t[i]) THEN 1 + RunLen(c, t, i + 1) ELSE 0

\* re's match of items k.. of pattern p at position i of folded text t: the end
\* position of the first match in backtracking order, 0 when there is none.
RECURSIVE MatchAt(_, _, _, _)
RECURSIVE TryRep(_, _, _, _, _, _)
MatchAt(p, k, t, i) ==
    IF k > Len(p) THEN i
    ELSE LET it == p[k] IN
      CASE it.t = "lit" ->
             IF i <= Len(t) /\ t[i] = it.k
             THEN MatchAt(p, k + 1, t, i + 1) ELSE 0
        [] it.t = "rep" -> TryRep(p, k, t, i, RunLen(it.c, t, i), it.min)
        [] it.t = "opt" ->
             LET taken == MatchAt(it.r \o SubSeq(p, k + 1, Len(p)), 1, t, i)
             IN IF taken # 0 THEN taken ELSE MatchAt(p, k + 1, t, i)
        [] it.t = "nla" ->
             IF MatchAt(it.r, 1, t, i) = 0 THEN MatchAt(p, k + 1, t, i) ELSE 0
        [] it.t = "wb" ->
             IF WordBoundary(t, i) THEN MatchAt(p, k + 1, t, i) ELSE 0

\* A greedy repetition that took n lexemes, giving them back one at a time.
TryRep(p, k, t, i, n, min) ==
    IF n < min THEN 0
    ELSE LET e == MatchAt(p, k + 1, t, i + n)
         IN IF e # 0 THEN e ELSE TryRep(p, k, t, i, n - 1, min)

\* FindIter resuming one position after the start of a match, not at its end.
RECURSIVE FindIter_Overlapping(_, _, _)
FindIter_Overlapping(p, t, pos) ==
    IF pos > Len(t) THEN <<>>
    ELSE LET e == MatchAt(p, 1, t, pos)
         IN IF e = 0 THEN FindIter_Overlapping(p, t, pos + 1)
            ELSE <<[start |-> pos, end |-> e]>> \o FindIter_Overlapping(p, t, pos + 1)

\* re.finditer(pattern, sql) from position pos: the non-overlapping matches,
\* left to right, each [start, end].  (No pattern of RULES matches the empty
\* string, so the scan resumes at the end of the match.)
RECURSIVE FindIter(_, _, _)
FindIter(p, t, pos) ==
    IF pos > Len(t) THEN <<>>
    ELSE LET e == MatchAt(p, 1, t, pos)
         IN IF e = 0 THEN FindIter(p, t, pos + 1)
            ELSE <<[start |-> pos, end |-> e]>> \o
                 FindIter(p, t, IF e > pos THEN e ELSE pos + 1)

---------------------------------------------------------------------------
(* The rule catalog.  (The dash of MS001's message is written "-".) *)

ws == Plus("s")

AlterTable == <<Lit("ALTER"), ws, Lit("TABLE"), ws, Plus("S"), ws>>

\* PatMS001 without its (?!...DEFAULT) lookahead.
PatMS001_NoLookahead ==
    AlterTable \o
    <<Lit("ADD"), ws, Opt(<<Lit("COLUMN"), ws>>), Plus("w"), ws, Plus("w"),
      Star("notsemi"), B, Lit("NOT"), ws, Lit("NULL"), B>>

PatMS001 ==
    AlterTable \o
    <<Lit("ADD"), ws, Opt(<<Lit("COLUMN"), ws>>), Plus("w"), ws, Plus("w"),
      Star("notsemi"), B, Lit("NOT"), ws, Lit("NULL"), B,
      NotAhead(<<Star("notsemi"), B, Lit("DEFAULT"), B>>)>>

PatMS002 == AlterTable \o <<Lit("DROP"), ws, Lit("COLUMN"), ws, Plus("w")>>

PatMS003 ==
    <<Lit("CREATE"), ws, Opt(<<Lit("UNIQUE"), ws>>), Lit("INDEX"), ws,
      NotAhead(<<Lit("CONCURRENTLY")>>)>>

PatMS004 == AlterTable \o <<Lit("RENAME"), ws, Lit("COLUMN"), ws, Plus("w")>>

PatMS005 ==
    <<Lit("DROP"), ws, Lit("TABLE"), ws,
      Opt(<<Lit("IF"), ws, Lit("EXISTS"), ws>>), Plus("w")>>

PatMS006 ==
    AlterTable \o
    <<Lit("ALTER"), ws, Lit("COLUMN"), ws, Plus("w"), ws,
      Opt(<<Lit("SET"), ws, Lit("DATA"), ws>>), Lit("TYPE")>>

PatMS007 ==
    AlterTable \o
    <<Lit("ADD"), ws, Opt(<<Lit("CONSTRAINT"), ws, Plus("w"), ws>>),
      Lit("UNIQUE")>>

\* PatMS101 without its closing parenthesis.
PatMS101_Prefix ==
    <<Lit("RunPython"), Star("s"), Lit("("), Star("s"), Plus("w")>>

PatMS101 ==
    <<Lit("RunPython"), Star("s"), Lit("("), Star("s"), Plus("w"), Star("s"),
      Lit(")")>>

Rule(id, sev, sc, pat, msg, rem) ==
    [id |-> id, severity |-> sev, score |-> sc, pattern |-> pat,
     message |-> msg, remediation |-> rem]

RULES ==
    << Rule("MS001", "CRITICAL", 40, PatMS001,
            "ADD NOT NULL column without DEFAULT - fails on non-empty tables",
            "Add DEFAULT value or split: add nullable -> backfill -> SET NOT NULL"),
       Rule("MS002", "HIGH", 30, PatMS002,
            "DROP COLUMN is backward-incompatible; running code may still reference it",
            "Expand-contract: stop reading -> deploy -> drop in later migration"),
       Rule("MS003", "HIGH", 25, PatMS003,
            "CREATE INDEX without CONCURRENTLY locks the table for writes",
            "Use CREATE INDEX CONCURRENTLY to avoid blocking writes"),
       Rule("MS004", "HIGH", 30, PatMS004,
            "RENAME COLUMN is backward-incompatible; old code uses old name",
            "Add new column -> copy data -> update code -> drop old column"),
       Rule("MS005", "CRITICAL", 50, PatMS005,
            "DROP TABLE causes irreversible data loss",
            "Ensure all services stopped using table; consider renaming first"),
       Rule("MS006", "HIGH", 35, PatMS006,
            "ALTER COLUMN TYPE may cause full table rewrite and lock",
            "Use expand-contract or ensure cast is safe (e.g. varchar->text)"),
       Rule("MS007", "MEDIUM", 20, PatMS007,
            "ADD UNIQUE constraint requires full table scan and lock",
            "Create UNIQUE INDEX CONCURRENTLY first, then ADD CONSTRAINT USING INDEX"),
       Rule("MS101", "MEDIUM", 20, PatMS101,
            "RunPython without reverse function makes migration irreversible",
            "Add reverse: RunPython(forward, reverse) or RunPython(forward, RunPython.noop)") >>

\* The first three characters of a rule id of the catalog.
Prefix3(id) ==
    CASE id \in {"MS001", "MS002", "MS003", "MS004", "MS005", "MS006", "MS007"} -> "MS0"
      [] id \in {"MS101"} -> "MS1"

\* r[0].startswith("MS1")
IsDjango(id) == Prefix3(id) = "MS1"

---------------------------------------------------------------------------
(* analyze_sql. *)

\* sql[:match.start()].count("\n") + 1
RECURSIVE CountNewlines(_, _)
CountNewlines(t, n) ==
    IF n = 0 THEN 0
    ELSE (IF t[n] = "\n" THEN 1 ELSE 0) + CountNewlines(t, n - 1)

\* LineOf without the + 1.
LineOf_ZeroBased(t, start) == CountNewlines(t, start - 1)

LineOf(t, start) == CountNewlines(t, start - 1) + 1

\* str.strip()
RECURSIVE LStrip(_)
LStrip(s) == IF s # <<>> /\ IsSpace(Head(s)) THEN LStrip(Tail(s)) ELSE s

RECURSIVE RStrip(_)
RStrip(s) ==
    IF s # <<>> /\ IsSpace(s[Len(s)]) THEN RStrip(SubSeq(s, 1, Len(s) - 1))
    ELSE s

Strip(s) == RStrip(LStrip(s))

SnippetMax == 80

\* [:80]: the lexemes within the first `room` characters; a lexeme the cut
\* falls inside is kept as its first `chars` characters.
RECURSIVE Truncate(_, _)
Truncate(s, room) ==
    IF s = <<>> \/ room = 0 THEN <<>>
    ELSE IF Len(Head(s)) > room THEN <<[of |-> Head(s), chars |-> room]>>
    ELSE <<Head(s)>> \o Truncate(Tail(s), room - Len(Head(s)))

Snippet(t, m) == Truncate(Strip(SubSeq(t, m.start, m.end - 1)), SnippetMax)

Finding(r, t, m) ==
    [rule_id |-> r.id, severity |-> r.severity, score |-> r.score,
     line |-> LineOf(t, m.start), message |-> r.message,
     sql_snippet |-> Snippet(t, m), remediation |-> r.remediation]

\* ActiveRules that ignores the flag.
ActiveRules_All(django) == RULES

\* active = [r for r in RULES if include_django or not r[0].startswith("MS1")]
ActiveRules(django) ==
    SelectSeq(RULES, LAMBDA r : django \/ ~IsDjango(r.id))

\* The matches of one rule, in the order finditer yields them.
RuleMatches(r, t) == FindIter(r.pattern, Fold(t), 1)

\* The inner loop of analyze_sql: for each match of rule r in turn, the
\* finding appended and the match's span.
RECURSIVE Emit(_, _, _)
Emit(r, t, ms) ==
    IF ms = <<>> THEN <<>>
    ELSE <<[f |-> Finding(r, t, Head(ms)), m |-> Head(ms)]>> \o Emit(r, t, Tail(ms))

\* The outer loop of analyze_sql, over rules k.. of rs.
RECURSIVE Scan(_, _, _)
Scan(rs, k, t) ==
    IF k > Len(rs) THEN <<>>
    ELSE Emit(rs[k], t, RuleMatches(rs[k], t)) \o Scan(rs, k + 1, t)

analyze_sql(t, django) == Scan(ActiveRules(django), 1, t)

FindingsOf(res) == [j \in 1..Len(res) |-> res[j].f]

SpansOf(res) == [j \in 1..Len(res) |-> res[j].m]

\* total_score that counts each rule once.
RECURSIVE total_score_Distinct(_)
total_score_Distinct(fs) ==
    IF fs = <<>> THEN 0
    ELSE (IF \E k \in 2..Len(fs) : fs[k].rule_id = Head(fs).rule_id
          THEN 0 ELSE Head(fs).score)
         + total_score_Distinct(Tail(fs))

\* AnalysisResult.total_score
RECURSIVE total_score(_)
total_score(fs) ==
    IF fs = <<>> THEN 0 ELSE Head(fs).score + total_score(Tail(fs))

\* risk_label with exclusive lower bounds.
risk_label_Strict(score) ==
    IF score > 50 THEN "CRITICAL"
    ELSE IF score > 30 THEN "HIGH"
    ELSE IF score > 15 THEN "MEDIUM"
    ELSE "LOW"

\* risk_label
risk_label(score) ==
    IF score >= 50 THEN "CRITICAL"
    ELSE IF score >= 30 THEN "HIGH"
    ELSE IF score >= 15 THEN "MEDIUM"
    ELSE "LOW"

---------------------------------------------------------------------------
(* The inputs. *)

MaxBody == 4

MaxTail == 3

MaxArgs == 5

MaxStmts == 3

\* The sequences of at most n elements of S.
RECURSIVE SeqsUpTo(_, _)
SeqsUpTo(S, n) ==
    IF n = 0 THEN {<<>>}
    ELSE LET shorter == SeqsUpTo(S, n - 1)
         IN shorter \cup {Append(s, x) : s \in shorter, x \in S}

\* The concatenation of a sequence of texts.
RECURSIVE Flatten(_)
Flatten(ss) == IF ss = <<>> THEN <<>> ELSE Head(ss) \o Flatten(Tail(ss))

AddColumn == <<"ALTER", " ", "TABLE", " ", "t", " ", "ADD", " ", "COLUMN", " ", "c", " ", "INT">>

AddBare == <<"ALTER", " ", "TABLE", " ", "t", " ", "ADD", " ", "c", " ", "INT">>

\* The column definitions and statement ends that may follow an ADD COLUMN.
BodyChunks ==
    { <<" ", "NOT", " ", "NULL">>, <<" ", "not", "\n", "null">>,
      <<" ", "DEFAULT">>, <<"x">>, <<";">>, <<"\n">> \o AddBare }

TextsMS001 ==
    { h \o Flatten(cs) : h \in {AddColumn, AddBare}, cs \in SeqsUpTo(BodyChunks, MaxBody) }

CreateHeads ==
    { <<"CREATE", " ", "INDEX">>, <<"CREATE", " ", "UNIQUE", "\t", "INDEX">>,
      <<"create", "\n", "index">> }

TailLexemes == {" ", "\n", "CONCURRENTLY", "concurrently", "i", ";"}

TextsMS003 ==
    { h \o tl : h \in CreateHeads, tl \in SeqsUpTo(TailLexemes, MaxTail) }

ArgLexemes == {"(", ")", ",", " ", "f"}

TextsMS101 ==
    { h \o tl : h \in {<<"RunPython">>, <<"migrations", ".", "runpython">>},
                tl \in SeqsUpTo(ArgLexemes, MaxArgs) }

\* Statements of a migration script; among them every rule of the catalog, a
\* statement that no ";" ends, a match that begins on one line and ends on the
\* next, and a safe statement.
Statements ==
    { AddColumn \o <<" ", "NOT", " ", "NULL", "\n">>,
      <<"ALTER", " ", "TABLE", " ", "t", " ", "DROP", " ", "COLUMN", " ", "a", ";",
        "ALTER", " ", "TABLE", " ", "t", " ", "ADD", " ", "CONSTRAINT", " ", "u", " ", "UNIQUE", ";">>,
      <<"CREATE", " ", "INDEX", " ", "i", ";">>,
      <<"DROP", "\n", "TABLE", " ", "IF", " ", "EXISTS", " ", "t", ";">>,
      <<"ALTER", " ", "TABLE", " ", "t", " ", "ALTER", " ", "COLUMN", " ", "a", " ", "SET", " ", "DATA", " ", "TYPE", " ", "x", ";",
        "ALTER", " ", "TABLE", " ", "t", " ", "RENAME", " ", "COLUMN", " ", "a", ";">>,
      <<"RunPython", "(", "f", ")">>,
      <<"SELECT", " ", "1", ";", "\n">> }

TextsMixed == { Flatten(ss) : ss \in SeqsUpTo(Statements, MaxStmts) }

---------------------------------------------------------------------------
(* A caller of analyze_sql. *)

InitWith(T) ==
    /\ pc = "call"
    /\ sql \in T
    /\ include_django \in BOOLEAN
    /\ findings = <<>>
    /\ spans = <<>>
    /\ paths = <<>>
    /\ threshold = 30
    /\ fmt = "table"
    /\ no_django = FALSE
    /\ idx = 0
    /\ all_findings = <<>>
    /\ total = 0
    /\ label = "none"
    /\ passed = "none"
    /\ exit_code = -1

Init == InitWith(TextsMixed)

InitMS001 == InitWith(TextsMS001)

InitMS003 == InitWith(TextsMS003)

InitMS101 == InitWith(TextsMS101)

AnalyzeSql ==
    /\ pc = "call"
    /\ \E res \in {analyze_sql(sql, include_django)} :
          /\ findings' = FindingsOf(res)
          /\ spans' = SpansOf(res)
          /\ total' = total_score(FindingsOf(res))
    /\ pc' = "returned"
    /\ UNCHANGED <<sql, include_django, paths, threshold, fmt, no_django, idx,
                   all_findings, label, passed, exit_code>>

Next == AnalyzeSql

Spec == Init /\ [][Next]_vars

SpecMS001 == InitMS001 /\ [][Next]_vars

SpecMS003 == InitMS003 /\ [][Next]_vars

SpecMS101 == InitMS101 /\ [][Next]_vars

---------------------------------------------------------------------------
(* A caller of risk_label. *)

MaxScore == 120

InitLabel ==
    /\ pc = "label"
    /\ total \in 0..MaxScore
    /\ sql = <<>>
    /\ include_django = TRUE
    /\ findings = <<>>
    /\ spans = <<>>
    /\ paths = <<>>
    /\ threshold = 30
    /\ fmt = "table"
    /\ no_django = FALSE
    /\ idx = 0
    /\ all_findings = <<>>
    /\ label = "none"
    /\ passed = "none"
    /\ exit_code = -1

RiskLabel ==
    /\ pc = "label"
    /\ label' = risk_label(total)
    /\ pc' = "labelled"
    /\ UNCHANGED <<sql, include_django, findings, spans, paths, threshold, fmt,
                   no_django, idx, all_findings, total, passed, exit_code>>

NextLabel == RiskLabel

SpecLabel == InitLabel /\ [][NextLabel]_vars

---------------------------------------------------------------------------
(* cli.main. *)

MaxFiles == 3

DefaultThreshold == 30

Thresholds == {-1, 0, 25, DefaultThreshold, 45, 100}

\* The content of a file that Path.read_text cannot read.
Unreadable == <<"<unreadable>">>

Files ==
    { <<"SELECT", " ", "1", ";">>,
      <<"CREATE", " ", "INDEX", " ", "i", " ", "ON", " ", "t", "(", "c", ")", ";">>,
      <<"DROP", " ", "TABLE", " ", "t", ";", "\n", "RunPython", "(", "f", ")">>,
      <<"RunPython", "(", "f", ")">>,
      <<"ALTER", " ", "TABLE", " ", "t", " ", "DROP", " ", "COLUMN", " ", "a", ";">>,
      Unreadable }

InitCli ==
    /\ pc = "main"
    /\ paths \in SeqsUpTo(Files, MaxFiles)
    /\ threshold \in Thresholds
    /\ fmt \in {"table", "json"}
    /\ no_django \in BOOLEAN
    /\ idx = 0
    /\ all_findings = <<>>
    /\ total = 0
    /\ sql = <<>>
    /\ include_django = TRUE
    /\ findings = <<>>
    /\ spans = <<>>
    /\ label = "none"
    /\ passed = "none"
    /\ exit_code = -1

\* if not paths: print the usage; sys.exit(0)
Usage ==
    /\ pc = "main"
    /\ paths = <<>>
    /\ exit_code' = 0
    /\ pc' = "exited"
    /\ UNCHANGED <<sql, include_django, findings, spans, paths, threshold, fmt,
                   no_django, idx, all_findings, total, label, passed>>

\* One turn of the loop over paths: r = analyze_file(p, include_django=not no_django)
AnalyzeFile ==
    /\ pc = "main"
    /\ idx < Len(paths)
    /\ paths[idx + 1] # Unreadable
    /\ \E res \in {analyze_sql(paths[idx + 1], ~no_django)} :
          /\ findings' = FindingsOf(res)
          /\ spans' = SpansOf(res)
          /\ all_findings' = all_findings \o FindingsOf(res)
          /\ total' = total + total_score(FindingsOf(res))
    /\ sql' = paths[idx + 1]
    /\ include_django' = ~no_django
    /\ idx' = idx + 1
    /\ UNCHANGED <<pc, paths, threshold, fmt, no_django, label, passed, exit_code>>

\* Path.read_text raises; nothing catches it and the interpreter exits with 1.
ReadError ==
    /\ pc = "main"
    /\ idx < Len(paths)
    /\ paths[idx + 1] = Unreadable
    /\ pc' = "raised"
    /\ exit_code' = 1
    /\ UNCHANGED <<sql, include_django, findings, spans, paths, threshold, fmt,
                   no_django, idx, all_findings, total, label, passed>>

\* if fmt == "json": the document is written; sys.exit(0 if total < threshold else 1)
EmitJson ==
    /\ pc = "main"
    /\ paths # <<>>
    /\ idx = Len(paths)
    /\ fmt = "json"
    /\ passed' = (total < threshold)
    /\ exit_code' = IF total < threshold THEN 0 ELSE 1
    /\ pc' = "exited"
    /\ UNCHANGED <<sql, include_django, findings, spans, paths, threshold, fmt,
                   no_django, idx, all_findings, total, label>>

\* RenderTable that blocks only above the threshold.
RenderTable_Strict ==
    /\ pc = "main"
    /\ paths # <<>>
    /\ idx = Len(paths)
    /\ fmt = "table"
    /\ label' = risk_label(total)
    /\ exit_code' = IF total > threshold THEN 1 ELSE 0
    /\ pc' = "exited"
    /\ UNCHANGED <<sql, include_django, findings, spans, paths, threshold, fmt,
                   no_django, idx, all_findings, total, passed>>

\* The table, the label, and: if total >= threshold: sys.exit(1); otherwise main
\* returns and the process exits with 0.
RenderTable ==
    /\ pc = "main"
    /\ paths # <<>>
    /\ idx = Len(paths)
    /\ fmt = "table"
    /\ label' = risk_label(total)
    /\ exit_code' = IF total >= threshold THEN 1 ELSE 0
    /\ pc' = "exited"
    /\ UNCHANGED <<sql, include_django, findings, spans, paths, threshold, fmt,
                   no_django, idx, all_findings, total, passed>>

NextCli == Usage \/ AnalyzeFile \/ ReadError \/ EmitJson \/ RenderTable

SpecCli == InitCli /\ [][NextCli]_vars

---------------------------------------------------------------------------
(* Properties.  The shapes the properties speak of are defined directly on *)
(* the lexemes of the text, without the matcher.                            *)

Returned == pc = "returned"

Positions == 1..Len(sql)

\* The lexeme at position i is keyword k, in any case.
KeywordAt(i, k) == i \in Positions /\ Upper(sql[i]) = k

\* The first position from i on that holds no whitespace (past the end when
\* only whitespace follows).
AfterSpaces(i) ==
    IF i > Len(sql) THEN i ELSE
    CHOOSE j \in i..(Len(sql) + 1) :
        /\ \A u \in i..(j - 1) : IsSpace(sql[u])
        /\ j = Len(sql) + 1 \/ ~IsSpace(sql[j])

\* The first position from i on that holds no word lexeme.
AfterWord(i) ==
    IF i > Len(sql) THEN i ELSE
    CHOOSE j \in i..(Len(sql) + 1) :
        /\ \A u \in i..(j - 1) : IsWord(sql[u])
        /\ j = Len(sql) + 1 \/ ~IsWord(sql[j])

\* The lexeme at position i is a whole word: no word lexeme touches it.
WholeWord(i) ==
    /\ i \in Positions /\ IsWord(sql[i])
    /\ i = 1 \/ ~IsWord(sql[i - 1])
    /\ i = Len(sql) \/ ~IsWord(sql[i + 1])

\* A finding of rule id whose match starts at position p.
EmittedAt(id, p) ==
    \E k \in 1..Len(findings) : findings[k].rule_id = id /\ spans[k].start = p

\* The position after CREATE [UNIQUE] INDEX when that starts at p, else 0.
CreateIndexEnd(p) ==
    LET a == AfterSpaces(p + 1)
        b == AfterSpaces(a + 1)
    IN IF ~KeywordAt(p, "CREATE") \/ a = p + 1 THEN 0
       ELSE IF KeywordAt(a, "INDEX") THEN a + 1
       ELSE IF KeywordAt(a, "UNIQUE") /\ b > a + 1 /\ KeywordAt(b, "INDEX") THEN b + 1
       ELSE 0

\* The word that follows CREATE [UNIQUE] INDEX and whitespace, as [from, to), or
\* <<>> when none does.
WordAfterIndex(p) ==
    LET e == CreateIndexEnd(p)
        w == AfterSpaces(e)
    IN IF e = 0 \/ w = e \/ w > Len(sql) \/ ~IsWord(sql[w]) THEN <<>>
       ELSE <<w, AfterWord(w)>>

\* C1: no MS003 finding for a CREATE [UNIQUE] INDEX whose next keyword, after any
\* run of one or more whitespace characters, is CONCURRENTLY; an MS003 finding
\* when the next keyword is any other word.
C1_ConcurrentlyNeverFlagged ==
    Returned =>
        \A p \in Positions :
            LET w == WordAfterIndex(p)
            IN w # <<>> =>
                 IF WholeWord(w[1]) /\ KeywordAt(w[1], "CONCURRENTLY")
                 THEN ~EmittedAt("MS003", p)
                 ELSE EmittedAt("MS003", p)

---------------------------------------------------------------------------

\* The position of the first ";" from i on (Len(sql) + 1 when there is none).
StatementEnd(i) ==
    IF i > Len(sql) THEN i ELSE
    CHOOSE j \in i..(Len(sql) + 1) :
        /\ \A u \in i..(j - 1) : sql[u] # ";"
        /\ j = Len(sql) + 1 \/ sql[j] = ";"

\* ALTER TABLE t ADD [COLUMN] c INT starts at p: the position after it, else 0.
StartsWith(p, h) ==
    p + Len(h) - 1 <= Len(sql) /\ SubSeq(sql, p, p + Len(h) - 1) = h

AddEnd(p) ==
    IF StartsWith(p, AddColumn) THEN p + Len(AddColumn)
    ELSE IF StartsWith(p, AddBare) THEN p + Len(AddBare)
    ELSE 0

\* p starts the ADD of its statement: no other ADD precedes it in the statement.
StartsAdd(p) ==
    /\ p \in Positions /\ AddEnd(p) # 0
    /\ \A q \in 1..(p - 1) : AddEnd(q) # 0 => StatementEnd(q) < p

\* The keywords NOT NULL, as whole words, start at i: the position after NULL,
\* else 0.
NotNullEnd(i) ==
    IF ~(KeywordAt(i, "NOT") /\ WholeWord(i)) THEN 0
    ELSE LET n == AfterSpaces(i + 1)
         IN IF n > i + 1 /\ KeywordAt(n, "NULL") /\ WholeWord(n) THEN n + 1 ELSE 0

\* The keyword DEFAULT, as a whole word, at d.
DefaultAt(d) == KeywordAt(d, "DEFAULT") /\ WholeWord(d)

\* The statement whose ADD starts at p has a NOT NULL with no DEFAULT between it
\* and the next ";" or the end of the text.
NotNullWithoutDefault(p) ==
    \E i \in AddEnd(p)..(StatementEnd(p) - 1) :
        /\ NotNullEnd(i) # 0
        /\ \A d \in NotNullEnd(i)..(StatementEnd(p) - 1) : ~DefaultAt(d)

\* C2: an ALTER TABLE ... ADD [COLUMN] name type ... NOT NULL statement gets an
\* MS001 finding exactly when no DEFAULT keyword stands between NOT NULL and the
\* next ";" or the end of the text; a DEFAULT after the ";" does not count.
C2_MS001IffNoDefaultInStatement ==
    Returned =>
        /\ \A p \in Positions :
              StartsAdd(p) => (EmittedAt("MS001", p) <=> NotNullWithoutDefault(p))
        /\ \A k \in 1..Len(findings) :
              findings[k].rule_id = "MS001" => StartsAdd(spans[k].start)

\* C2's case: a finding for a statement that a later statement's DEFAULT follows.
C2_Witness ==
    /\ Returned
    /\ \E p \in Positions :
          /\ StartsAdd(p) /\ EmittedAt("MS001", p)
          /\ \E d \in StatementEnd(p)..Len(sql) : DefaultAt(d)

---------------------------------------------------------------------------

\* The rule ids of the catalog that start with MS1.
TaggedIds == {"MS101"}

Untagged(fs) == SelectSeq(fs, LAMBDA f : f.rule_id \notin TaggedIds)

OfRule(fs, id) == SelectSeq(fs, LAMBDA f : f.rule_id = id)

\* C3: without the framework rules the findings hold no MS1xx finding and are
\* the findings with the framework rules, the MS1xx findings deleted, in the
\* same order; and the findings of each active rule are those the rule yields
\* when it is scanned alone.
C3_OptOutRemovesOnlyTagged ==
    Returned =>
        /\ ~include_django =>
              /\ \A k \in 1..Len(findings) : findings[k].rule_id \notin TaggedIds
              /\ findings = Untagged(FindingsOf(analyze_sql(sql, TRUE)))
        /\ include_django =>
              Untagged(findings) = FindingsOf(analyze_sql(sql, FALSE))
        /\ \A n \in 1..Len(RULES) :
              OfRule(findings, RULES[n].id) =
                 IF include_django \/ RULES[n].id \notin TaggedIds
                 THEN FindingsOf(Scan(<<RULES[n]>>, 1, sql))
                 ELSE <<>>

\* C3's case: the opt-out deleted an MS1xx finding from among other findings.
C3_Witness ==
    /\ Returned /\ ~include_django
    /\ findings # <<>>
    /\ Len(FindingsOf(analyze_sql(sql, TRUE))) > Len(findings)

---------------------------------------------------------------------------

\* The sum of score * (number of matches) over rules n.. of the catalog.
RECURSIVE ScoreOfMatches(_, _)
ScoreOfMatches(n, django) ==
    IF n > Len(RULES) THEN 0
    ELSE (IF django \/ RULES[n].id \notin TaggedIds
          THEN RULES[n].score * Len(RuleMatches(RULES[n], sql)) ELSE 0)
         + ScoreOfMatches(n + 1, django)

\* The sum of the scores of findings k.. .
RECURSIVE ScoresFrom(_)
ScoresFrom(k) ==
    IF k > Len(findings) THEN 0 ELSE findings[k].score + ScoresFrom(k + 1)

\* C4: total_score is the sum of the findings' scores; every score is positive;
\* the total is >= 0 and is 0 exactly when there are no findings; every match of
\* every rule adds the rule's full score.
C4_TotalIsSumOfPositiveScores ==
    Returned =>
        /\ total = ScoresFrom(1)
        /\ \A k \in 1..Len(findings) : findings[k].score > 0
        /\ total >= 0
        /\ total = 0 <=> findings = <<>>
        /\ total = ScoreOfMatches(1, include_django)

\* C4's case: two matches of one rule with the same text, both counted.
C4_Witness ==
    /\ Returned
    /\ \E j, k \in 1..Len(findings) :
          /\ j < k
          /\ findings[j].rule_id = findings[k].rule_id
          /\ findings[j].sql_snippet = findings[k].sql_snippet
    /\ total > 0

---------------------------------------------------------------------------

Rank(l) ==
    CASE l = "LOW" -> 1 [] l = "MEDIUM" -> 2 [] l = "HIGH" -> 3 [] l = "CRITICAL" -> 4

\* C5: risk_label is CRITICAL from 50, HIGH from 30 to 49, MEDIUM from 15 to 29
\* and LOW below 15, for every score >= 0; no smaller score has a higher label.
C5_LabelThresholds ==
    pc = "labelled" =>
        /\ label \in {"LOW", "MEDIUM", "HIGH", "CRITICAL"}
        /\ label = "CRITICAL" <=> total >= 50
        /\ label = "HIGH" <=> (30 <= total /\ total < 50)
        /\ label = "MEDIUM" <=> (15 <= total /\ total < 30)
        /\ label = "LOW" <=> total < 15
        /\ \A s \in 0..total : Rank(risk_label(s)) <= Rank(label)

\* C5's case: the label of a score on a boundary.
C5_Witness == pc = "labelled" /\ total = 50 /\ label = "CRITICAL"

---------------------------------------------------------------------------

\* The position in the catalog of the rule with this id.
CatalogPosition(id) == CHOOSE n \in 1..Len(RULES) : RULES[n].id = id

\* C6: the findings are in catalog order of their rules; the findings of one
\* rule are in text order, their matches do not overlap and their lines do not
\* decrease.
C6_CatalogThenTextOrder ==
    Returned =>
        \A j, k \in 1..Len(findings) :
            j < k =>
               /\ CatalogPosition(findings[j].rule_id) <= CatalogPosition(findings[k].rule_id)
               /\ findings[j].rule_id = findings[k].rule_id =>
                     /\ spans[j].start < spans[k].start
                     /\ spans[j].end <= spans[k].start
                     /\ findings[j].line <= findings[k].line

\* C6's case: a finding of an earlier rule that stands later in the text than a
\* finding of a later rule, and two findings of one rule on different lines.
C6_Witness ==
    /\ Returned
    /\ \E j, k \in 1..Len(findings) :
          /\ j < k
          /\ findings[j].rule_id # findings[k].rule_id
          /\ spans[j].start > spans[k].start
    /\ \E j, k \in 1..Len(findings) :
          /\ j < k
          /\ findings[j].rule_id = findings[k].rule_id
          /\ findings[j].line < findings[k].line

---------------------------------------------------------------------------

\* The number of newlines among the first n lexemes of the text.
NewlinesBefore(n) == Cardinality({u \in 1..n : sql[u] = "\n"})

\* C9: a finding's line is 1 + the number of newlines before the start of its
\* match, so it is at least 1 and at most 1 + the number of newlines of the text.
C9_LineOfMatchStart ==
    Returned =>
        \A k \in 1..Len(findings) :
            /\ findings[k].line = 1 + NewlinesBefore(spans[k].start - 1)
            /\ findings[k].line >= 1
            /\ findings[k].line <= 1 + NewlinesBefore(Len(sql))

\* C9's case: a match that starts after the first line and ends on a later line
\* than it starts.
C9_Witness ==
    /\ Returned
    /\ \E k \in 1..Len(findings) :
          /\ findings[k].line >= 2
          /\ NewlinesBefore(spans[k].end - 1) > NewlinesBefore(spans[k].start - 1)

---------------------------------------------------------------------------

CharAt(i, c) == i \in Positions /\ sql[i] = c

\* RunPython at p, then "(", one identifier, ")", with optional whitespace
\* before the "(" and around the identifier.
OneArgCallAt(p) ==
    LET open == AfterSpaces(p + 1)
        arg == AfterSpaces(open + 1)
        close == AfterSpaces(AfterWord(arg))
    IN /\ KeywordAt(p, "RUNPYTHON")
       /\ CharAt(open, "(")
       /\ arg \in Positions /\ IsWord(sql[arg])
       /\ CharAt(close, ")")

\* RunPython at p, then "(", two identifiers separated by a comma, ")".
TwoArgCallAt(p) ==
    LET open == AfterSpaces(p + 1)
        arg1 == AfterSpaces(open + 1)
        comma == AfterSpaces(AfterWord(arg1))
        arg2 == AfterSpaces(comma + 1)
        close == AfterSpaces(AfterWord(arg2))
    IN /\ KeywordAt(p, "RUNPYTHON")
       /\ CharAt(open, "(")
       /\ arg1 \in Positions /\ IsWord(sql[arg1])
       /\ CharAt(comma, ",")
       /\ arg2 \in Positions /\ IsWord(sql[arg2])
       /\ CharAt(close, ")")

\* C8: with the framework rules on, a RunPython call with exactly one bare
\* identifier as its argument list gets an MS101 finding; a RunPython call with
\* two comma-separated arguments gets none.
C8_RunPythonOneArgument ==
    Returned =>
        \A p \in Positions :
            /\ (OneArgCallAt(p) /\ include_django) => EmittedAt("MS101", p)
            /\ TwoArgCallAt(p) => ~EmittedAt("MS101", p)

\* C8's case: a finding for a call whose identifier has whitespace around it.
C8_Witness ==
    /\ Returned /\ include_django
    /\ \E p \in Positions :
          /\ OneArgCallAt(p) /\ EmittedAt("MS101", p)
          /\ AfterSpaces(AfterSpaces(p + 1) + 1) > AfterSpaces(p + 1) + 1

---------------------------------------------------------------------------

\* The sum of the scores of a list of findings.
ScoreSum(fs) ==
    LET RECURSIVE From(_)
        From(k) == IF k > Len(fs) THEN 0 ELSE fs[k].score + From(k + 1)
    IN From(1)

\* The findings of files 1..n of the command line, file after file.
RECURSIVE BatchFindings(_)
BatchFindings(n) ==
    IF n = 0 THEN <<>>
    ELSE BatchFindings(n - 1) \o FindingsOf(analyze_sql(paths[n], ~no_django))

\* The sum over files 1..n of each file's total score.
RECURSIVE BatchTotal(_)
BatchTotal(n) ==
    IF n = 0 THEN 0
    ELSE BatchTotal(n - 1) + ScoreSum(FindingsOf(analyze_sql(paths[n], ~no_django)))

Ran == pc = "exited" /\ paths # <<>>

\* C7: for a non-empty list of readable files the batch total is the sum of the
\* files' total scores and the findings are the files' findings in input order;
\* the exit status is non-zero exactly when total >= threshold, in both output
\* formats; the JSON "passed" is total < threshold, which is exit status 0.
C7_BatchTotalGatesExit ==
    Ran =>
        /\ total = BatchTotal(Len(paths))
        /\ all_findings = BatchFindings(Len(paths))
        /\ exit_code # 0 <=> total >= threshold
        /\ exit_code \in {0, 1}
        /\ fmt = "json" =>
              /\ passed = (total < threshold)
              /\ passed <=> exit_code = 0

\* C7's case: several files whose total just reaches the threshold.
C7_Witness ==
    /\ Ran /\ Len(paths) >= 2
    /\ total = threshold /\ total > 0
    /\ exit_code = 1

---------------------------------------------------------------------------

\* C10: when a run's findings include one of severity HIGH or CRITICAL, the
\* total is at least 30, its label is HIGH or CRITICAL, and the command line at
\* its default threshold exits with a non-zero status.
C10_HighSeverityBlocks ==
    (Ran /\ \E k \in 1..Len(all_findings) :
                all_findings[k].severity \in {"HIGH", "CRITICAL"}) =>
        /\ total >= 30
        /\ risk_label(total) \in {"HIGH", "CRITICAL"}
        /\ threshold = DefaultThreshold => exit_code # 0

=============================================================================
